---- MODULE Spec2Model ----
(***************************************************************************)
(* k-out-of-n maintenance calculator (Assignment_2_maintenance.py).        *)
(*                                                                         *)
(* The stationary distribution of the birth-death chain, the availability, *)
(* the total cost and the greedy search of optimize_system, computed in    *)
(* the arithmetic of Python's float (IEEE 754 binary64, round to nearest,  *)
(* ties to even). A Python value is a tuple <<kind, sign, mant, exp>>:     *)
(*   <<"float", sg, m, e>>  the finite float (-1)^sg * m * 2^e, where m is *)
(*                          a natural number below 2^53 written as its     *)
(*                          digits in base 2^15, least significant first   *)
(*                          (<<>> is 0), and either 2^52 <= m with         *)
(*                          -1074 <= e <= 971, or m < 2^52 with e = -1074  *)
(*   <<"inf", sg, <<>>, 0>> float('inf') and -float('inf')                 *)
(*   <<"nan", 0, <<>>, 0>>  nan                                            *)
(*   <<"int", v, <<>>, 0>>  the int v                                      *)
(*   <<"None", 0, <<>>, 0>> None                                           *)
(* and a call's outcome is a record: exc = "" and val the value returned,  *)
(* or exc the name of the exception that left the call.                    *)
(***************************************************************************)
EXTENDS Integers, Sequences, FiniteSets, TLC

VARIABLES n, k, s, lam, mu, warm_standby,
          component_cost, repairman_cost, downtime_cost,
          best_n, best_s, min_cost, improvement,
          current_best_cost, current_best_s,
          evaluated, pc, ret

vars == <<n, k, s, lam, mu, warm_standby,
          component_cost, repairman_cost, downtime_cost,
          best_n, best_s, min_cost, improvement,
          current_best_cost, current_best_s,
          evaluated, pc, ret>>

----------------------------------------------------------------------------
(* Bounds of the model and constants of the program. *)

\* optimize_system is started with k in 1..MaxK, and with k = n_max + 1.
MaxK == 3
\* The functions are called with n in 1..MaxN, k in 1..n and s in 1..MaxS.
MaxN == 3
MaxS == 4
\* n_max = 1000, the ceiling of the search (the while test repeats the literal).
n_max == 1000

----------------------------------------------------------------------------
(* Natural numbers of any size, as their digits in base 2^15, the least    *)
(* significant first and the most significant not 0; <<>> is 0.            *)

Limb == 32768
LimbBits == 15

Abs(i) == IF i < 0 THEN -i ELSE i
Min(a, b) == IF a <= b THEN a ELSE b

\* The i-th digit of x (i >= 1), 0 beyond its length.
BDigit(x, i) == IF i <= Len(x) THEN x[i] ELSE 0

\* x without its leading zero digits.
RECURSIVE BNorm(_)
BNorm(x) ==
    IF x = <<>> THEN x
    ELSE IF x[Len(x)] = 0 THEN BNorm(SubSeq(x, 1, Len(x) - 1))
    ELSE x

\* The natural number i < 2^31.
RECURSIVE BFromInt(_)
BFromInt(i) == IF i = 0 THEN <<>> ELSE <<i % Limb>> \o BFromInt(i \div Limb)

\* -1, 0 or 1 as a < b, a = b or a > b.
RECURSIVE BCmpFrom(_, _, _)
BCmpFrom(a, b, i) ==
    IF i = 0 THEN 0
    ELSE IF a[i] # b[i] THEN (IF a[i] < b[i] THEN -1 ELSE 1)
    ELSE BCmpFrom(a, b, i - 1)

BCmp(a, b) ==
    IF Len(a) # Len(b) THEN (IF Len(a) < Len(b) THEN -1 ELSE 1)
    ELSE BCmpFrom(a, b, Len(a))

\* a + b
RECURSIVE BAddC(_, _, _, _)
BAddC(a, b, i, carry) ==
    IF i > Len(a) /\ i > Len(b) THEN (IF carry = 0 THEN <<>> ELSE <<carry>>)
    ELSE LET t == BDigit(a, i) + BDigit(b, i) + carry
         IN  <<t % Limb>> \o BAddC(a, b, i + 1, t \div Limb)

BAdd(a, b) == BAddC(a, b, 1, 0)

\* a - b, for a >= b
RECURSIVE BSubC(_, _, _, _)
BSubC(a, b, i, borrow) ==
    IF i > Len(a) THEN <<>>
    ELSE LET t == a[i] - BDigit(b, i) - borrow
         IN  <<IF t < 0 THEN t + Limb ELSE t>>
                 \o BSubC(a, b, i + 1, IF t < 0 THEN 1 ELSE 0)

BSub(a, b) == BNorm(BSubC(a, b, 1, 0))

\* a * d, for a digit d
RECURSIVE BMulSmallC(_, _, _, _)
BMulSmallC(a, d, i, carry) ==
    IF i > Len(a) THEN (IF carry = 0 THEN <<>> ELSE <<carry>>)
    ELSE LET t == a[i] * d + carry
         IN  <<t % Limb>> \o BMulSmallC(a, d, i + 1, t \div Limb)

BMulSmall(a, d) == IF d = 0 THEN <<>> ELSE BMulSmallC(a, d, 1, 0)

\* a * Limb^j
BShlLimbs(a, j) == IF a = <<>> THEN a ELSE [i \in 1..j |-> 0] \o a

\* a * b
RECURSIVE BMulFrom(_, _, _)
BMulFrom(a, b, j) ==
    IF j > Len(b) THEN <<>>
    ELSE BAdd(BShlLimbs(BMulSmall(a, b[j]), j - 1), BMulFrom(a, b, j + 1))

BMul(a, b) == BMulFrom(a, b, 1)

\* a * 2^bits
BShl(a, bits) ==
    BShlLimbs(BMulSmall(a, 2 ^ (bits % LimbBits)), bits \div LimbBits)

\* a \div 2^bits: the digits from the i-th on of a \div p, p a power of 2
\* below Limb, and then a whole number of digits dropped.
RECURSIVE BShrFrom(_, _, _)
BShrFrom(a, p, i) ==
    IF i > Len(a) THEN <<>>
    ELSE <<(a[i] \div p) + (BDigit(a, i + 1) % p) * (Limb \div p)>>
             \o BShrFrom(a, p, i + 1)

BShr(a, bits) ==
    BNorm(BShrFrom(a, 2 ^ (bits % LimbBits), bits \div LimbBits + 1))

\* a % 2^bits = 0
BLowZero(a, bits) ==
    /\ \A i \in 1..Min(bits \div LimbBits, Len(a)) : a[i] = 0
    /\ BDigit(a, bits \div LimbBits + 1) % (2 ^ (bits % LimbBits)) = 0

\* The bit of weight 2^i of a.
BBit(a, i) == (BDigit(a, i \div LimbBits + 1) \div (2 ^ (i % LimbBits))) % 2

\* The number of bits of a: 0 for 0, else the least b with a < 2^b.
RECURSIVE BitLenSmall(_)
BitLenSmall(d) == IF d = 0 THEN 0 ELSE 1 + BitLenSmall(d \div 2)

BBitLen(a) ==
    IF a = <<>> THEN 0 ELSE LimbBits * (Len(a) - 1) + BitLenSmall(a[Len(a)])

\* The digit cur \div b, for cur < b * Limb and the leading digit of b at
\* least Limb/2: the quotient of the two leading digits of cur by the leading
\* digit of b is at most 2 above it.
RECURSIVE BDigitDown(_, _, _)
BDigitDown(cur, b, q) ==
    IF BCmp(BMulSmall(b, q), cur) > 0 THEN BDigitDown(cur, b, q - 1) ELSE q

BDigitOf(cur, b) ==
    LET top == BDigit(cur, Len(b) + 1) * Limb + BDigit(cur, Len(b))
    IN  BDigitDown(cur, b, Min(Limb - 1, top \div b[Len(b)]))

\* Long division by b, the leading digit of b at least Limb/2: the digits of
\* a from the leading one down to the i-th, rem (below b) the remainder so
\* far and acc the digits of the quotient so far. BDivDigit takes the next
\* digit d of the quotient out of cur, the remainder with the i-th digit of a
\* appended.
RECURSIVE BDivFrom(_, _, _, _, _)
BDivDigit(a, b, i, cur, d, acc) ==
    BDivFrom(a, b, i - 1, BSub(cur, BMulSmall(b, d)), <<d>> \o acc)

BDivStep(a, b, i, cur, acc) == BDivDigit(a, b, i, cur, BDigitOf(cur, b), acc)

BDivFrom(a, b, i, rem, acc) ==
    IF i = 0 \/ BCmp(rem, b) >= 0 THEN [q |-> BNorm(acc), r |-> rem]
    ELSE BDivStep(a, b, i, BNorm(<<a[i]>> \o rem), acc)

\* a \div b and a % b, for b > 0: both are scaled by 2^sh to bring the
\* leading digit of b to Limb/2 or above.
BDivScaled(sa, sb) == BDivFrom(sa, sb, Len(sa), <<>>, <<>>)
BDivUnscale(dm, sh) == [q |-> dm.q, r |-> BShr(dm.r, sh)]
BDivModBy(a, b, sh) == BDivUnscale(BDivScaled(BShl(a, sh), BShl(b, sh)), sh)
BDivMod(a, b) == BDivModBy(a, b, LimbBits - BitLenSmall(b[Len(b)]))

\* a \div d and a % d (an int), for 0 < d <= Limb: the digits of a from the
\* leading one down to the i-th, rem the remainder so far and acc the
\* quotient so far.
RECURSIVE BDivSmallFrom(_, _, _, _, _)
BDivSmallFrom(a, d, i, rem, acc) ==
    IF i = 0 \/ rem >= d THEN [q |-> BNorm(acc), r |-> rem]
    ELSE BDivSmallFrom(a, d, i - 1, (rem * Limb + a[i]) % d,
                       <<(rem * Limb + a[i]) \div d>> \o acc)

BDivModSmall(a, d) == BDivSmallFrom(a, d, Len(a), 0, <<>>)

----------------------------------------------------------------------------
(* Python values. *)

\* binary64: 53 significant bits; the exponent of the last place of a finite
\* float lies in -1074..971.
Precision == 53
MinExp == -1074
MaxExp == 971
\* An addend more than Guard binary places below the last place of the other
\* one only makes the sum inexact.
Guard == 64

Float(sg, m, e) == <<"float", sg, m, e>>
Inf(sg) == <<"inf", sg, <<>>, 0>>
inf == Inf(0)
nan == <<"nan", 0, <<>>, 0>>
None == <<"None", 0, <<>>, 0>>
PyInt(v) == <<"int", v, <<>>, 0>>
Kind(x) == x[1]
Sign(x) == x[2]
Mant(x) == x[3]
Exp(x) == x[4]
IsZero(x) == Kind(x) = "float" /\ Mant(x) = <<>>

Ok(v) == [exc |-> "", val |-> v]
Raise(e) == [exc |-> e, val |-> None]
ZeroDivisionError == "ZeroDivisionError"

\* A finite float of mantissa m (below 2^53) and exponent e, or the infinity
\* when e is beyond the largest exponent.
finite(sg, m, e) ==
    IF e > MaxExp THEN Inf(sg)
    ELSE IF m = <<>> THEN Float(sg, <<>>, MinExp)
    ELSE Float(sg, m, e)

\* The rounded mantissa m1 may have reached 2^53.
round_carry(sg, m1, e1) ==
    IF BBitLen(m1) > Precision THEN finite(sg, BShr(m1, 1), e1 + 1)
    ELSE finite(sg, m1, e1)

\* The bits of M below 2^shift are dropped (m0 is what is left): up when they
\* are more than half a unit of m0, or half a unit and m0 is odd.
round_up(M, shift, sticky, m0) ==
    /\ shift > 0
    /\ BBit(M, shift - 1) = 1
    /\ \/ sticky
       \/ ~BLowZero(M, shift - 1)
       \/ BDigit(m0, 1) % 2 = 1

round_dropped(sg, M, shift, sticky, m0, e1) ==
    round_carry(sg, IF round_up(M, shift, sticky, m0) THEN BAdd(m0, <<1>>) ELSE m0, e1)

round_shifted(sg, M, shift, sticky, e1) ==
    round_dropped(sg, M, shift, sticky,
                  IF shift <= 0 THEN BShl(M, -shift) ELSE BShr(M, shift), e1)

\* The exponent of the last place of the result is e, that of the 53rd bit
\* of M, or MinExp for a subnormal result.
round_at(sg, M, E, sticky, e) ==
    round_shifted(sg, M, (IF e < MinExp THEN MinExp ELSE e) - E, sticky,
                  IF e < MinExp THEN MinExp ELSE e)

\* The float nearest to (-1)^sg * M * 2^E, a tie going to the even mantissa;
\* with sticky, to a number just above M * 2^E in magnitude (bits of M are
\* then dropped). Beyond the largest finite float the result is an infinity.
round(sg, M, E, sticky) ==
    IF M = <<>> THEN Float(sg, <<>>, MinExp)
    ELSE round_at(sg, M, E, sticky, E + BBitLen(M) - Precision)

\* float(i) of an int (below 2^31 in magnitude, so exact).
float_of_int(i) == round(IF i < 0 THEN 1 ELSE 0, BFromInt(Abs(i)), 0, FALSE)

\* -a
neg(a) == IF Kind(a) = "nan" THEN a ELSE <<Kind(a), 1 - Sign(a), Mant(a), Exp(a)>>

\* a * b
mul(a, b) ==
    IF Kind(a) = "nan" \/ Kind(b) = "nan" THEN nan
    ELSE IF Kind(a) = "inf" \/ Kind(b) = "inf"
         THEN (IF IsZero(a) \/ IsZero(b) THEN nan ELSE Inf((Sign(a) + Sign(b)) % 2))
    ELSE round((Sign(a) + Sign(b)) % 2, BMul(Mant(a), Mant(b)), Exp(a) + Exp(b), FALSE)

\* Mb * 2^e + Ms * 2^e with the signs of big and small, c the comparison of
\* Mb with Ms.
add_mags(big, small, e, Mb, Ms, c) ==
    IF Sign(big) # Sign(small) /\ c = 0 THEN Float(0, <<>>, MinExp)
    ELSE round(IF Sign(big) = Sign(small) \/ c > 0 THEN Sign(big) ELSE Sign(small),
               IF Sign(big) = Sign(small) THEN BAdd(Mb, Ms)
               ELSE IF c > 0 THEN BSub(Mb, Ms) ELSE BSub(Ms, Mb),
               e, FALSE)

add_aligned(big, small, e, Mb, Ms) == add_mags(big, small, e, Mb, Ms, BCmp(Mb, Ms))

\* a + b of two finite floats that are not zero, big the one of the higher
\* exponent: both mantissas are brought to the exponent of small, or, when
\* that is more than Guard places down, small to one unit Guard places down.
add_finite(big, small) ==
    IF Exp(big) - Exp(small) > Guard
    THEN add_aligned(big, small, Exp(big) - Guard, BShl(Mant(big), Guard), <<1>>)
    ELSE add_aligned(big, small, Exp(small),
                     BShl(Mant(big), Exp(big) - Exp(small)), Mant(small))

\* a + b
add(a, b) ==
    IF Kind(a) = "nan" \/ Kind(b) = "nan" THEN nan
    ELSE IF Kind(a) = "inf"
         THEN (IF Kind(b) = "inf" /\ Sign(b) # Sign(a) THEN nan ELSE a)
    ELSE IF Kind(b) = "inf" THEN b
    ELSE IF IsZero(a) /\ IsZero(b)
         THEN Float(IF Sign(a) = 1 /\ Sign(b) = 1 THEN 1 ELSE 0, <<>>, MinExp)
    ELSE IF IsZero(a) THEN b
    ELSE IF IsZero(b) THEN a
    ELSE add_finite(IF Exp(a) >= Exp(b) THEN a ELSE b,
                    IF Exp(a) >= Exp(b) THEN b ELSE a)

\* a - b
sub(a, b) == add(a, neg(b))

\* The quotient dm.q with remainder dm.r of two mantissas, rounded.
div_round(sg, dm, E) == round(sg, dm.q, E, dm.r # <<>>)

\* a / b of finite floats that are not zero: the mantissa of a is scaled by
\* 2^sh so that the quotient has at least 55 bits.
div_finite(sg, a, b, sh) ==
    div_round(sg, BDivMod(BShl(Mant(a), sh), Mant(b)), Exp(a) - Exp(b) - sh)

\* a / b: Python raises ZeroDivisionError when the divisor is zero.
truediv(a, b) ==
    IF IsZero(b) THEN Raise(ZeroDivisionError)
    ELSE IF Kind(a) = "nan" \/ Kind(b) = "nan" THEN Ok(nan)
    ELSE IF Kind(a) = "inf"
         THEN Ok(IF Kind(b) = "inf" THEN nan ELSE Inf((Sign(a) + Sign(b)) % 2))
    ELSE IF Kind(b) = "inf" \/ IsZero(a)
         THEN Ok(Float((Sign(a) + Sign(b)) % 2, <<>>, MinExp))
    ELSE Ok(div_finite((Sign(a) + Sign(b)) % 2, a, b,
                       Precision + 3 + BBitLen(Mant(b)) - BBitLen(Mant(a))))

\* |a| < |b| for floats that are not nan.
MagLess(a, b) ==
    IF Kind(a) = "inf" THEN FALSE
    ELSE IF Kind(b) = "inf" THEN TRUE
    ELSE IF Exp(a) # Exp(b) THEN Exp(a) < Exp(b)
    ELSE BCmp(Mant(a), Mant(b)) < 0

\* a < b on floats: False when either is nan.
lt(a, b) ==
    IF Kind(a) = "nan" \/ Kind(b) = "nan" THEN FALSE
    ELSE IF IsZero(a) /\ IsZero(b) THEN FALSE
    ELSE IF Sign(a) # Sign(b) THEN Sign(a) = 1
    ELSE IF Sign(a) = 1 THEN MagLess(b, a)
    ELSE MagLess(a, b)

\* a <= b on floats: False when either is nan.
le(a, b) == Kind(a) # "nan" /\ Kind(b) # "nan" /\ ~lt(b, a)

\* sum(xs) of a list of floats: 0 + xs[0] + xs[1] + ..., left to right.
RECURSIVE sum(_)
sum(xs) ==
    IF xs = <<>> THEN float_of_int(0)
    ELSE add(sum(SubSeq(xs, 1, Len(xs) - 1)), xs[Len(xs)])

\* The float written num/den as a decimal literal (0.1 is float_lit(1, 10)):
\* the float nearest to num/den.
float_lit(num, den) == truediv(float_of_int(num), float_of_int(den)).val

\* 2.0 ** e, for -1022 <= e <= 1023
pow2(e) == Float(0, BShl(<<1>>, Precision - 1), e - (Precision - 1))

----------------------------------------------------------------------------
(* The rates of the chain. *)

\* birth_rate = min(n - i, s) * lam
birth_rate(n_, i, s_, lam_) == mul(float_of_int(Min(n_ - i, s_)), lam_)

\* warm standby: death_rate = (i+1) * mu
death_rate_warm(i, mu_) == mul(float_of_int(i + 1), mu_)

\* cold standby: death_rate = i * mu if i < k else k * mu
death_rate_cold(i, k_, mu_) ==
    IF i < k_ THEN mul(float_of_int(i), mu_) ELSE mul(float_of_int(k_), mu_)

\* One pass of either loop: pi_unnorm[i+1] = pi_unnorm[i] * (birth / death),
\* on the outcome of the passes before it.
loop_assign(prev, q) ==
    IF q.exc # "" THEN Raise(q.exc)
    ELSE Ok(Append(prev.val, mul(prev.val[Len(prev.val)], q.val)))

loop_body(prev, birth, death) ==
    IF prev.exc # "" THEN prev ELSE loop_assign(prev, truediv(birth, death))

\* pi_unnorm after the passes i = 0 .. m-1 of the warm loop: entries 0..m
\* (the entries still 0.0 beyond m are not kept), or the exception raised.
RECURSIVE pi_unnorm_warm(_, _, _, _, _)
pi_unnorm_warm(m, n_, s_, lam_, mu_) ==
    IF m = 0 THEN Ok(<<float_of_int(1)>>)
    ELSE loop_body(pi_unnorm_warm(m - 1, n_, s_, lam_, mu_),
                   birth_rate(n_, m - 1, s_, lam_),
                   death_rate_warm(m - 1, mu_))

\* The same for the cold loop.
RECURSIVE pi_unnorm_cold(_, _, _, _, _, _)
pi_unnorm_cold(m, n_, k_, s_, lam_, mu_) ==
    IF m = 0 THEN Ok(<<float_of_int(1)>>)
    ELSE loop_body(pi_unnorm_cold(m - 1, n_, k_, s_, lam_, mu_),
                   birth_rate(n_, m - 1, s_, lam_),
                   death_rate_cold(m - 1, k_, mu_))

\* [x / c for x in xs], from the j-th entry of xs on, for c not zero.
RECURSIVE quotients(_, _, _)
quotients(xs, c, j) ==
    IF j > Len(xs) THEN <<>>
    ELSE <<truediv(xs[j], c).val>> \o quotients(xs, c, j + 1)

\* norm_const = sum(pi_unnorm); pi = [x / norm_const for x in pi_unnorm]
normalize_by(pi_unnorm, norm_const) ==
    IF IsZero(norm_const) THEN Raise(ZeroDivisionError)
    ELSE Ok(quotients(pi_unnorm, norm_const, 1))

normalize(pi_unnorm) == normalize_by(pi_unnorm, sum(pi_unnorm))

\* availability = sum(pi[i] for i in range(k, n + 1)); state i is entry i+1.
availability_of(pi, n_, k_) ==
    IF k_ > n_ THEN float_of_int(0) ELSE sum(SubSeq(pi, k_ + 1, n_ + 1))

\* return pi, availability
returned_pair(p, n_, k_) ==
    IF p.exc # "" THEN p
    ELSE Ok([pi |-> p.val, availability |-> availability_of(p.val, n_, k_)])

\* Normalisation, availability and the pair returned, after either loop.
normalized_result(unnorm, n_, k_) ==
    IF unnorm.exc # "" THEN unnorm
    ELSE returned_pair(normalize(unnorm.val), n_, k_)

k_out_of_n_availability_warm(n_, k_, s_, lam_, mu_) ==
    normalized_result(pi_unnorm_warm(n_, n_, s_, lam_, mu_), n_, k_)

k_out_of_n_availability_cold(n_, k_, s_, lam_, mu_) ==
    normalized_result(pi_unnorm_cold(n_, n_, k_, s_, lam_, mu_), n_, k_)

\* pi, availability = k_out_of_n_availability_warm(...) or ..._cold(...)
availability_call(n_, k_, s_, lam_, mu_, warm_) ==
    IF warm_ THEN k_out_of_n_availability_warm(n_, k_, s_, lam_, mu_)
    ELSE k_out_of_n_availability_cold(n_, k_, s_, lam_, mu_)

\* (n * component_cost) + (s * repairman_cost) + ((1-availability) * downtime_cost),
\* the costs ints (so that the first sum is an int) and the availability a float
cost_sum(n_, s_, availability, cc, rc, dc) ==
    add(float_of_int(n_ * cc + s_ * rc),
        mul(sub(float_of_int(1), availability), float_of_int(dc)))

swallowed(r, n_, s_, cc, rc, dc) ==
    IF r.exc # "" THEN Ok(inf)
    ELSE Ok(cost_sum(n_, s_, r.val.availability, cc, rc, dc))

\* total_cost with the exception caught and float('inf') returned in its place.
total_cost_swallowing(n_, k_, s_, lam_, mu_, warm_, cc, rc, dc) ==
    swallowed(availability_call(n_, k_, s_, lam_, mu_, warm_), n_, s_, cc, rc, dc)

passed_through(r, n_, s_, cc, rc, dc) ==
    IF r.exc # "" THEN Raise(r.exc)
    ELSE Ok(cost_sum(n_, s_, r.val.availability, cc, rc, dc))

\* total_cost: an exception of the availability function passes through.
total_cost(n_, k_, s_, lam_, mu_, warm_, cc, rc, dc) ==
    passed_through(availability_call(n_, k_, s_, lam_, mu_, warm_), n_, s_, cc, rc, dc)

----------------------------------------------------------------------------
(* The inputs. *)

\* lam: the default 0.5 of the form, 1.0, and two rates whose powers leave
\* the range of float: 2.0**342 (lam**3 is finite, 4*lam**3 is not) and
\* 2.0**400 (lam**2 is finite, lam**3 is not).
LamValues == {float_lit(1, 2), float_lit(1, 1), pow2(342), pow2(400)}
\* mu: the default 0.1 of the form, 0.5, 1.0, and 0.005, which as a float lies
\* above the decimal 0.005 and is written 0.01 by f"{mu:.2f}".
MuValues == {float_lit(1, 200), float_lit(1, 10), float_lit(1, 2), float_lit(1, 1)}
\* component_cost, repairman_cost, downtime_cost: ints >= 1; the defaults of
\* the form are 10, 50 and 100. With <<9, 52, 203>> (lam 1.0, mu 0.5) and
\* <<90, 79, 833>> (lam 1.0, mu 1.0) two costs that are equal as real numbers
\* differ by a unit in the last place as floats.
CostValues ==
    {<<10, 10, 1>>, <<10, 10, 100>>, <<10, 50, 1>>, <<10, 50, 100>>,
     <<9, 52, 203>>, <<90, 79, 833>>}

KValues == (1..MaxK) \cup {n_max + 1}

InitInputs ==
    /\ lam \in LamValues
    /\ mu \in MuValues
    /\ warm_standby \in BOOLEAN
    /\ \E c \in CostValues :
          /\ component_cost = c[1]
          /\ repairman_cost = c[2]
          /\ downtime_cost = c[3]

----------------------------------------------------------------------------
(* optimize_system, one step per loop test and per pass of the inner loop. *)
(* pc: "while" at the test of the while loop, "for" at the head of the     *)
(* inner loop (s is the next value of range(1, n)), "if" after it, "done"  *)
(* once returned, "raised" once an exception has left the function.        *)
(* evaluated lists the (n, s) given to total_cost so far. Before the first *)
(* pass s, current_best_cost and current_best_s are unbound in Python;     *)
(* they are 0, inf and None here until WhileBody assigns them.             *)

Init ==
    /\ InitInputs
    /\ k \in KValues
    /\ n = k
    /\ s = 0
    /\ best_n = None
    /\ best_s = None
    /\ min_cost = inf
    /\ improvement = TRUE
    /\ current_best_cost = inf
    /\ current_best_s = None
    /\ evaluated = <<>>
    /\ pc = "while"
    /\ ret = Ok(None)

inputs == <<k, lam, mu, warm_standby, component_cost, repairman_cost, downtime_cost>>

\* The while test without its ceiling: while improvement
while_test_without_ceiling == improvement

\* while improvement and n <= 1000
while_test == improvement /\ n <= n_max

\* The inner loop over range(1, n + 1)
for_test_inclusive == s <= n

\* for s in range(1, n): there is a next s
for_test == s < n

\* if cost < current_best_cost
is_better(cost) == lt(cost, current_best_cost)

\* The comparison turned round: if current_best_cost > min_cost
is_improvement_reversed == lt(min_cost, current_best_cost)

\* if current_best_cost < min_cost
is_improvement == lt(current_best_cost, min_cost)

WhileBody ==
    /\ pc = "while"
    /\ while_test
    /\ current_best_cost' = inf
    /\ current_best_s' = None
    /\ s' = 1
    /\ pc' = "for"
    /\ UNCHANGED <<inputs, n, best_n, best_s, min_cost, improvement, evaluated, ret>>

Return ==
    /\ pc = "while"
    /\ ~while_test
    /\ pc' = "done"
    /\ ret' = Ok(<<best_n, best_s, min_cost>>)
    /\ UNCHANGED <<inputs, n, s, best_n, best_s, min_cost, improvement,
                   current_best_cost, current_best_s, evaluated>>

ForBody ==
    /\ pc = "for"
    /\ for_test
    /\ evaluated' = Append(evaluated, <<n, s>>)
    /\ LET cost == total_cost(n, k, s, lam, mu, warm_standby,
                              component_cost, repairman_cost, downtime_cost)
       IN  IF cost.exc # ""
           THEN /\ pc' = "raised"
                /\ ret' = Raise(cost.exc)
                /\ UNCHANGED <<s, current_best_cost, current_best_s>>
           ELSE /\ IF is_better(cost.val)
                   THEN /\ current_best_cost' = cost.val
                        /\ current_best_s' = PyInt(s)
                   ELSE UNCHANGED <<current_best_cost, current_best_s>>
                /\ s' = s + 1
                /\ UNCHANGED <<pc, ret>>
    /\ UNCHANGED <<inputs, n, best_n, best_s, min_cost, improvement>>

ForEnd ==
    /\ pc = "for"
    /\ ~for_test
    /\ pc' = "if"
    /\ UNCHANGED <<inputs, n, s, best_n, best_s, min_cost, improvement,
                   current_best_cost, current_best_s, evaluated, ret>>

Accept ==
    /\ pc = "if"
    /\ is_improvement
    /\ min_cost' = current_best_cost
    /\ best_n' = PyInt(n)
    /\ best_s' = current_best_s
    /\ n' = n + 1
    /\ pc' = "while"
    /\ UNCHANGED <<inputs, s, improvement, current_best_cost, current_best_s,
                   evaluated, ret>>

\* The else branch going on to the next n instead of ending the search.
Stop_continue ==
    /\ pc = "if"
    /\ ~is_improvement
    /\ n' = n + 1
    /\ pc' = "while"
    /\ UNCHANGED <<inputs, s, best_n, best_s, min_cost, improvement,
                   current_best_cost, current_best_s, evaluated, ret>>

Stop ==
    /\ pc = "if"
    /\ ~is_improvement
    /\ improvement' = FALSE
    /\ pc' = "while"
    /\ UNCHANGED <<inputs, n, s, best_n, best_s, min_cost,
                   current_best_cost, current_best_s, evaluated, ret>>

Next == WhileBody \/ Return \/ ForBody \/ ForEnd \/ Accept \/ Stop

Spec == Init /\ [][Next]_vars

----------------------------------------------------------------------------
(* visualize_birth_death: the nodes and the labelled edges of the diagram. *)

\* str(d), d < 10000, with zeros in front up to four digits.
FourDigits(d) ==
    (IF d < 1000 THEN "0" ELSE "") \o (IF d < 100 THEN "0" ELSE "")
        \o (IF d < 10 THEN "0" ELSE "") \o ToString(d)

\* str(N) of a natural number N > 0, eight digits at a time.
RECURSIVE DecString(_)
DecString(N) ==
    LET lo == BDivModSmall(N, 10000)
        hi == BDivModSmall(lo.q, 10000)
    IN  IF lo.q = <<>> THEN ToString(lo.r)
        ELSE IF hi.q = <<>> THEN ToString(hi.r) \o FourDigits(lo.r)
        ELSE DecString(hi.q) \o FourDigits(hi.r) \o FourDigits(lo.r)

\* f"{x:.2f}": the value of the float x in hundredths, rounded to the nearest
\* integer, a tie going to the even one.
format_2f(x) ==
    IF Kind(x) = "nan" THEN "nan"
    ELSE IF Kind(x) = "inf" THEN (IF Sign(x) = 1 THEN "-inf" ELSE "inf")
    ELSE LET T == BMulSmall(Mant(x), 100)
             shift == -Exp(x)
             c0 == IF shift <= 0 THEN BShl(T, -shift) ELSE BShr(T, shift)
             up == /\ shift > 0
                   /\ BBit(T, shift - 1) = 1
                   /\ \/ ~BLowZero(T, shift - 1)
                      \/ BDigit(c0, 1) % 2 = 1
             cents == IF up THEN BAdd(c0, <<1>>) ELSE c0
             dm == BDivModSmall(cents, 100)
             frac == dm.r
         IN  (IF Sign(x) = 1 THEN "-" ELSE "")
                 \o (IF dm.q = <<>> THEN "0" ELSE DecString(dm.q)) \o "."
                 \o (IF frac < 10 THEN "0" ELSE "") \o ToString(frac)

\* dot.edge(str(i), str(i+1), label=f"Birth: {multiplier}lambda = {birth_rate:.2f}")
birth_edge(i, n_, s_, lam_) ==
    LET multiplier == Min(n_ - i, s_)
    IN  [tail |-> ToString(i), head |-> ToString(i + 1),
         label |-> [kind |-> "Birth", multiplier |-> multiplier,
                    rate |-> format_2f(mul(float_of_int(multiplier), lam_))]]

\* dot.edge(str(j), str(j-1), label=f"Death: {j or k}mu = {death_rate:.2f}")
death_edge(j, k_, mu_, warm_) ==
    LET multiplier == IF warm_ THEN j ELSE IF j <= k_ THEN j ELSE k_
    IN  [tail |-> ToString(j), head |-> ToString(j - 1),
         label |-> [kind |-> "Death", multiplier |-> multiplier,
                    rate |-> format_2f(mul(float_of_int(multiplier), mu_))]]

visualize_birth_death(n_, k_, s_, lam_, mu_, warm_) ==
    Ok([nodes |-> [j \in 1..(n_ + 1) |->
                      [name |-> ToString(j - 1),
                       label |-> "State " \o ToString(j - 1)]],
        edges |-> [j \in 1..n_ |-> birth_edge(j - 1, n_, s_, lam_)]
                  \o [j \in 1..n_ |-> death_edge(j, k_, mu_, warm_)]])

----------------------------------------------------------------------------
(* The functions called once each on valid parameters (1 <= k <= n, s >= 1, *)
(* positive rates, costs >= 1): pc is "call" before the call and the name   *)
(* of the function called after it, ret its outcome.                        *)

InitCalc ==
    /\ InitInputs
    /\ n \in 1..MaxN
    /\ k \in 1..n
    /\ s \in 1..MaxS
    /\ best_n = None
    /\ best_s = None
    /\ min_cost = inf
    /\ improvement = TRUE
    /\ current_best_cost = inf
    /\ current_best_s = None
    /\ evaluated = <<>>
    /\ pc = "call"
    /\ ret = Ok(None)

Returned(name, outcome) ==
    /\ pc = "call"
    /\ pc' = name
    /\ ret' = outcome
    /\ UNCHANGED <<inputs, n, s, best_n, best_s, min_cost, improvement,
                   current_best_cost, current_best_s, evaluated>>

CallWarm ==
    Returned("k_out_of_n_availability_warm",
             k_out_of_n_availability_warm(n, k, s, lam, mu))

CallCold ==
    Returned("k_out_of_n_availability_cold",
             k_out_of_n_availability_cold(n, k, s, lam, mu))

CallTotalCost ==
    Returned("total_cost",
             total_cost(n, k, s, lam, mu, warm_standby,
                        component_cost, repairman_cost, downtime_cost))

CallVisualize ==
    Returned("visualize_birth_death",
             visualize_birth_death(n, k, s, lam, mu, warm_standby))

NextCalc == CallWarm \/ CallCold \/ CallTotalCost \/ CallVisualize

SpecCalc == InitCalc /\ [][NextCalc]_vars

---------------------------------------------------------------------------------------------------------------------------------------------------
(* Properties of the functions (SpecCalc).                                 *)

AvailabilityCalled ==
    pc \in {"k_out_of_n_availability_warm", "k_out_of_n_availability_cold"}

\* The availability function that was called, on s_ repair crews.
AvailabilityWith(s_) ==
    IF pc = "k_out_of_n_availability_warm"
    THEN k_out_of_n_availability_warm(n, k, s_, lam, mu)
    ELSE k_out_of_n_availability_cold(n, k, s_, lam, mu)

\* |x - 1.0| <= 1e-9
NearOne(x) ==
    /\ le(sub(x, float_of_int(1)), float_lit(1, 1000000000))
    /\ le(sub(float_of_int(1), x), float_lit(1, 1000000000))

\* C1: on valid parameters either availability function returns a vector of
\* n+1 entries, none negative, that sum to 1 (to within 1e-9).
C1_StationaryVectorReturned ==
    AvailabilityCalled =>
        /\ ret.exc = ""
        /\ Len(ret.val.pi) = n + 1
        /\ \A j \in 1..(n + 1) : le(float_of_int(0), ret.val.pi[j])
        /\ NearOne(sum(ret.val.pi))

\* C5: cold standby with n = 1, k = 1 divides by death_rate = k*mu in its one
\* pass, so that nothing is divided by zero and a vector and an availability
\* are returned.
C5_ColdSingleUnitReturns ==
    (pc = "k_out_of_n_availability_cold" /\ n = 1 /\ k = 1) =>
        /\ death_rate_cold(0, k, mu) = mul(float_of_int(k), mu)
        /\ ret.exc = ""
        /\ Len(ret.val.pi) = 2

\* C7: the availability returned for s+1 repair crews is at least the one
\* returned for s crews.
C7_AvailabilityMonotoneInS ==
    AvailabilityCalled =>
        LET more == AvailabilityWith(s + 1)
        IN  /\ ret.exc = ""
            /\ more.exc = ""
            /\ le(ret.val.availability, more.val.availability)

\* total_cost on the inputs of the state, with the three costs given.
CostWith(cc, rc, dc) ==
    total_cost(n, k, s, lam, mu, warm_standby, cc, rc, dc)

\* C8: raising one of component_cost, repairman_cost, downtime_cost, the other
\* two held, gives a strictly larger total cost, in either standby mode.
C8_TotalCostStrictlyIncreasing ==
    pc = "total_cost" =>
        /\ ret.exc = ""
        /\ \A raised \in {CostWith(component_cost + 1, repairman_cost, downtime_cost),
                          CostWith(component_cost, repairman_cost + 1, downtime_cost),
                          CostWith(component_cost, repairman_cost, downtime_cost + 1)} :
              raised.exc = "" /\ lt(ret.val, raised.val)

\* The death rate the availability function of the mode divides by in pass i.
CoreDeathRate(i) ==
    IF warm_standby THEN death_rate_warm(i, mu) ELSE death_rate_cold(i, k, mu)

\* C9: the diagram labels edge i -> i+1 with the birth rate, and edge
\* i+1 -> i with the death rate, that the availability function uses in pass i.
C9_DiagramRatesAreCoreRates ==
    pc = "visualize_birth_death" =>
        \A i \in 0..(n - 1) :
            /\ ret.val.edges[i + 1].label.rate
                 = format_2f(birth_rate(n, i, s, lam))
            /\ ret.val.edges[n + i + 1].label.rate
                 = format_2f(CoreDeathRate(i))

----------------------------------------------------------------------------
(* Properties of optimize_system (Spec).                                   *)

Terminated == pc \in {"done", "raised"}

IsPresent(x) == x # None

\* The n of every configuration given to total_cost.
EvaluatedN == {evaluated[j][1] : j \in 1..Len(evaluated)}

\* total_cost of (n_, s_) on the inputs of the run.
CostAt(n_, s_) ==
    total_cost(n_, k, s_, lam, mu, warm_standby,
               component_cost, repairman_cost, downtime_cost)

\* The least cost over s in [1, n_-1], a cost that is nan left aside;
\* float('inf') when there is no cost below it.
MinCostAt(n_) ==
    LET costs == {CostAt(n_, t).val : t \in 1..(n_ - 1)} \cup {inf}
    IN  CHOOSE c \in costs : Kind(c) # "nan" /\ \A d \in costs : ~lt(d, c)

\* Some s in [1, k-1] has a cost below float('inf') at n = k.
StartHasCost == lt(MinCostAt(k), inf)

\* No configuration with n > 1000 is given to total_cost, and best_n is at
\* most 1000.
WithinCeiling ==
    /\ \A m \in EvaluatedN : m <= n_max
    /\ pc = "for" => n <= n_max
    /\ IsPresent(best_n) => best_n[2] <= n_max

\* A measure of what is left of the search: the passes of the while loop
\* that the ceiling still allows, each of them longer than any pass's own
\* steps, and then the steps left of the pass under way.
PassLength == n_max + 5

Rank ==
    CASE pc = "while" ->
            (IF improvement /\ n <= n_max THEN (n_max + 1 - n) * PassLength ELSE 0)
            + n + 3
      [] pc = "for" -> (n_max + 1 - n) * PassLength + (n - s) + 2
      [] pc = "if" -> (n_max + 1 - n) * PassLength + 1
      [] OTHER -> 0

\* C2: optimize_system terminates (every step brings it nearer to its end,
\* which is a return or an exception leaving it), it never evaluates a
\* configuration with n > 1000, and best_n is never above 1000.
C2_TerminatesWithinCeiling ==
    /\ [](WithinCeiling /\ Rank >= 0 /\ (Rank = 0 <=> Terminated))
    /\ [][Rank' < Rank]_vars

\* The search started above the ceiling has returned without evaluating.
C2_Witness ==
    pc = "done" /\ k > n_max /\ evaluated = <<>> /\ ~IsPresent(best_n)

\* What C3 says of the result, for the k of the run.
NoWorseThanStart ==
    /\ IsPresent(best_n)
    /\ IsPresent(best_s)
    /\ min_cost = CostAt(best_n[2], best_s[2]).val
    /\ le(min_cost, MinCostAt(k))
    /\ ret.val = <<best_n, best_s, min_cost>>

\* C3 as stated: warm standby, any k >= 2.
C3_Original ==
    (pc = "done" /\ warm_standby /\ k >= 2) => NoWorseThanStart

\* C3 as amended: warm standby and k >= 2. With k <= 1000 and a cost below
\* float('inf') for some s at n = k, a configuration is returned, its
\* min_cost is total_cost(best_n, k, best_s) and is at most the least cost at
\* n = k; otherwise (k > 1000, or every cost at n = k nan) the result is
\* (None, None, inf).
C3_NoWorseThanStartBelowCeiling ==
    (pc = "done" /\ warm_standby /\ k >= 2) =>
        IF k <= n_max /\ StartHasCost THEN NoWorseThanStart
        ELSE ret.val = <<None, None, inf>>

\* The search has returned an n above its start.
C3_Witness ==
    /\ pc = "done" /\ warm_standby /\ k >= 2
    /\ IsPresent(best_n) /\ best_n[2] > k

\* C4: with k = 1 nothing is evaluated, the search ends in its first pass of
\* the while loop and (None, None, inf) is returned.
C4_NothingFoundForK1 ==
    k = 1 =>
        /\ evaluated = <<>>
        /\ n = 1
        /\ pc # "raised"
        /\ ~improvement => pc \in {"while", "done"}
        /\ pc = "done" => /\ ~improvement
                          /\ ret.exc = ""
                          /\ ret.val = <<None, None, inf>>

C4_Witness ==
    pc = "done" /\ k = 1 /\ ret.val = <<None, None, inf>>

\* Some pass of the cold loop for n_ units divides by a death rate of zero.
ColdDeathRateZero(n_) ==
    \E i \in 0..(n_ - 1) : IsZero(death_rate_cold(i, k, mu))

\* Some pass of the loop of the run's standby mode does.
DeathRateZero(n_) ==
    IF warm_standby
    THEN \E i \in 0..(n_ - 1) : IsZero(death_rate_warm(i, mu))
    ELSE ColdDeathRateZero(n_)

\* C6: a death rate of zero ends k_out_of_n_availability_cold, total_cost and
\* optimize_system in ZeroDivisionError, with nothing returned; without one
\* no exception leaves them.
C6_ZeroDeathRateRaises ==
    /\ (pc = "for" /\ for_test) =>
          /\ ColdDeathRateZero(n) =>
                k_out_of_n_availability_cold(n, k, s, lam, mu)
                    = Raise(ZeroDivisionError)
          /\ DeathRateZero(n) => CostAt(n, s) = Raise(ZeroDivisionError)
          /\ ~DeathRateZero(n) => CostAt(n, s).exc = ""
    /\ (evaluated # <<>> /\ DeathRateZero(evaluated[Len(evaluated)][1])) =>
          /\ pc = "raised"
          /\ ret = Raise(ZeroDivisionError)
    /\ pc = "raised" =>
          /\ evaluated # <<>>
          /\ DeathRateZero(evaluated[Len(evaluated)][1])
          /\ ret.val = None
    /\ pc = "done" => ret.exc = ""

\* ZeroDivisionError has left optimize_system at its first evaluation.
C6_Witness ==
    /\ pc = "raised" /\ ~warm_standby
    /\ evaluated = <<(<<k, 1>>)>>
    /\ ret.exc = ZeroDivisionError

\* total_cost is called for n = k, k+1, ... in turn and, for each n, for
\* s = 1, ..., n-1 in turn.
EvaluatedInOrder ==
    /\ evaluated # <<>> => evaluated[1] = <<k, 1>>
    /\ \A j \in 1..Len(evaluated) :
          /\ 1 <= evaluated[j][2]
          /\ evaluated[j][2] < evaluated[j][1]
    /\ \A j \in 1..(Len(evaluated) - 1) :
          evaluated[j + 1] = IF evaluated[j][2] + 1 < evaluated[j][1]
                             THEN <<evaluated[j][1], evaluated[j][2] + 1>>
                             ELSE <<evaluated[j][1] + 1, 1>>

\* best_n is the least n >= k with n = 1000 or the least cost at n+1 not
\* below the least cost at n; best_s is the least s of least cost at best_n.
FirstLocalMinimum ==
    /\ IsPresent(best_n)
    /\ IsPresent(best_s)
    /\ LET b == best_n[2]
           c == best_s[2]
       IN  /\ b >= k
           /\ b = n_max \/ ~lt(MinCostAt(b + 1), MinCostAt(b))
           /\ \A m \in k..(b - 1) :
                 m # n_max /\ lt(MinCostAt(m + 1), MinCostAt(m))
           /\ 1 <= c /\ c < b
           /\ CostAt(b, c).val = MinCostAt(b)
           /\ \A t \in 1..(c - 1) : CostAt(b, t).val # MinCostAt(b)
           /\ min_cost = MinCostAt(b)
           /\ \A m \in EvaluatedN : m <= b + 1

\* C10 as stated: the search returns the first local minimum.
C10_Original ==
    pc = "done" => (EvaluatedInOrder /\ FirstLocalMinimum)

\* C10 as amended: the configurations are evaluated in order; nothing beyond
\* best_n + 1 (beyond k, while best_n is absent) is evaluated; the search
\* returns best_n absent exactly when k > 1000 or no s has a cost below
\* float('inf') at n = k (k = 1, or every cost there nan), and a best_n that
\* is present is the first local minimum.
C10_FirstLocalMinimumWhenPresent ==
    /\ EvaluatedInOrder
    /\ \A m \in EvaluatedN :
          m <= IF IsPresent(best_n) THEN best_n[2] + 1 ELSE k
    /\ pc = "done" =>
          /\ ~IsPresent(best_n) <=> (k > n_max \/ ~StartHasCost)
          /\ IsPresent(best_n) => FirstLocalMinimum

\* The search has returned an n above its start with more than one crew.
C10_Witness ==
    /\ pc = "done"
    /\ IsPresent(best_n) /\ best_n[2] > k
    /\ IsPresent(best_s) /\ best_s[2] > 1
    /\ Len(evaluated) > 3

====
